---- MODULE Spec2Model ----
(***************************************************************************)
(* Model of the resilient Spotify integration layer of podcast-qna:        *)
(*   - CircuitBreaker          (src/src/spotify/circuit-breaker.py)        *)
(*   - RateLimiter             (src/src/spotify/client.py)                 *)
(*   - SpotifyDataSync         (src/src/spotify/sync.py)                   *)
(*   - RealAWSCostTracker      (src/src/cost_tracker.py)                   *)
(*   - SpotifyClient / OAuth   (src/src/spotify/client.py, oauth.py)       *)
(*   - SpotifySyncScheduler    (src/src/spotify/sync.py)                   *)
(*   - CostAwareCostTracker    (src/src/cost_aware_tracker.py)             *)
(* Each component has its own next-state relation and specification; the   *)
(* variables of the other components stay at their initial values.         *)
(* Time is a discrete clock `now`; each component states what one tick of  *)
(* it stands for where that matters.                                       *)
(***************************************************************************)
EXTENDS Integers, Sequences, FiniteSets, TLC

VARIABLES
    now,                \* wall clock (time.time() / datetime.utcnow()), in ticks
    \* ---- CircuitBreaker ----
    cb_state,           \* CircuitBreaker._state
    failure_count,      \* CircuitBreaker._failure_count
    last_failure_time,  \* CircuitBreaker._last_failure_time (None or a time)
    failure_threshold,  \* CircuitBreaker.failure_threshold (constructor argument)
    cb_pc,              \* per caller: position inside CircuitBreaker.call
    cb_event,           \* history: the last breaker operation and the state it found
    counted_failures,   \* history: failures counted since the breaker was last closed or reset
    \* ---- RateLimiter ----
    calls,              \* RateLimiter.calls: admission timestamps kept by the limiter
    rl_lock,            \* RateLimiter._lock: "free", or the caller whose frame holds it
    rl_pc,              \* per caller: position inside RateLimiter.acquire
    rl_wake,            \* per caller: time at which its asyncio.sleep ends
    rl_started,         \* number of acquire() calls started so far
    admitted,           \* history of every timestamp appended to calls
    \* ---- SpotifyDataSync ----
    shows,              \* table user_podcasts (UserPodcast rows, in insertion order)
    episodes,           \* table user_podcast_episodes (UserPodcastEpisode rows)
    sync_failure_count, \* per user: SpotifyConnection.sync_failure_count
    last_sync_error,    \* per user: SpotifyConnection.last_sync_error is set
    stats,              \* the stats dict returned by the last sync_user_podcasts
    last_run,           \* history: <<user, payload>> of the last run, or <<>>
    rerun,              \* history: the last run repeated the run before it
    runs,               \* number of sync_user_podcasts runs so far
    \* ---- RealAWSCostTracker (amounts in units of $0.10) ----
    daily_limit,        \* settings.daily_budget_limit
    weekly_limit,       \* settings.weekly_budget_limit
    monthly_limit,      \* settings.monthly_budget_limit
    emergency_limit,    \* settings.emergency_stop_budget
    bg_query,           \* history: what the last _check_budget_limits was given
    bg_result,          \* what the last _check_budget_limits returned
    bg_alerts,          \* levels of the alerts the last _check_budget_limits sent
    cost_records,       \* len(self._cost_records)
    tr_query,           \* history: the setting and the re-query of the last track_api_call
    tr_result,          \* its outcome, "none" when a later direct check followed it
    tr_alerts,          \* levels of all the alerts it sent
    \* ---- SpotifyClient._make_request / SpotifyOAuth (one client, of ClientUser) ----
    rq_pc,              \* position of the innermost _make_request invocation
    rq_exc,             \* class of the exception being raised, if any
    rq_err,             \* history: what raised it
    rq_frames,          \* outer invocations waiting for a nested _make_request
    retry_count,        \* retry_count of the innermost invocation
    token_expires_at,   \* connection.token_expires_at
    cl_calls,           \* self.rate_limiter.calls of the client
    inv_http,           \* history: HTTP requests sent by the innermost invocation
    inv_slots,          \* history: limiter slots taken by the innermost invocation
    inv_token_http,     \* history: token-endpoint POSTs of the innermost invocation
    oauth_result,       \* outcome of the last direct SpotifyOAuth token call
    oauth_http,         \* history: token-endpoint POSTs of that call
    rq_attempts,        \* history: HTTP requests sent for the logical request
    api_rows,           \* history: SpotifyAPICall rows added for the logical request
    max_retries,        \* config.max_retries
    backoff_factor,     \* config.backoff_factor
    \* ---- concurrent callers of SpotifyOAuth.ensure_valid_token on one connection ----
    ev_pc,              \* per caller: position inside ensure_valid_token
    ev_sent,            \* per caller: the refresh token its refresh call carries
    refresh_token,      \* connection.refresh_token, as the number of rotations so far
    \* ---- the rate limiters of several SpotifyClient instances ----
    inst_calls,         \* per client instance: self.rate_limiter.calls
    inst_pc,            \* per client instance: "ready", or "blocked" inside acquire()
    inst_admitted,      \* history: every admission timestamp, over all instances
    \* ---- SpotifyAuthState ----
    auth_states,        \* SpotifyAuthState._states: per state, its data or NoState
    st_saved,           \* history: per state, what the last save_state stored, and when
    st_returns,         \* history: per state, get_state calls that returned data since then
    st_result,          \* history: the last get_state call, its time and what it returned
    \* ---- SpotifyConnection rows and SpotifySyncScheduler ----
    connected,          \* users that have a SpotifyConnection row
    last_sync_at,       \* per user: SpotifyConnection.last_sync_at (None or a time)
    sched_running,      \* SpotifySyncScheduler._running
    sched_pc,           \* position of the scheduler's start() coroutine
    sched_wake,         \* time at which the scheduler's asyncio.sleep ends
    sched_iter,         \* number of sync_all_users calls so far
    sa_due,             \* history: connections due when the last sync_all_users began
    sa_synced,          \* history: connections that sync_all_users call has synced
    \* ---- CostAwareCostTracker ----
    cost_cache,         \* logs/cost_cache.json: per cache key, the entry's timestamp or None
    oracle_calls,       \* history: per day, the api_func calls made by _cached_api_call
    ca_last             \* history: how the last _cached_api_call got its result

cbVars == <<cb_state, failure_count, last_failure_time, failure_threshold, cb_pc, cb_event,
            counted_failures>>
rlVars == <<calls, rl_lock, rl_pc, rl_wake, rl_started, admitted>>
budgetVars == <<daily_limit, weekly_limit, monthly_limit, emergency_limit,
                bg_query, bg_result, bg_alerts, cost_records, tr_query, tr_result,
                tr_alerts>>
clientVars == <<rq_pc, rq_exc, rq_err, rq_frames, retry_count, token_expires_at,
                cl_calls, inv_http, inv_slots, inv_token_http,
                oauth_result, oauth_http, rq_attempts, api_rows>>
refreshVars == <<ev_pc, ev_sent, refresh_token>>
cfgVars == <<max_retries, backoff_factor>>
instVars == <<inst_calls, inst_pc, inst_admitted>>
stateVars == <<auth_states, st_saved, st_returns, st_result>>
connVars == <<connected, last_sync_at>>
schedVars == <<sched_running, sched_pc, sched_wake, sched_iter, sa_due, sa_synced>>
cacheVars == <<cost_cache, oracle_calls, ca_last>>
extVars == <<refreshVars, cfgVars, instVars, stateVars, connVars, schedVars, cacheVars>>
syncVars == <<shows, episodes, sync_failure_count, last_sync_error, stats, last_run, rerun, runs>>

\* ------------------------------------------------------------------------
\* Bounds of the model
\* ------------------------------------------------------------------------
MaxTime == 8            \* the clock stops here
MaxThreshold == 3       \* failure_threshold ranges over 1..MaxThreshold
MaxFailureCount == 5    \* cap on _failure_count
MaxCalls == 4           \* acquire() calls started in one behaviour
MaxDepth == 3           \* nested _make_request invocations of one request
MaxTokenFailures == 2   \* failed refreshes after which no new request is started
MaxRotations == 2       \* rotations of the refresh token in one behaviour
MaxRuns == 2            \* sync_user_podcasts runs in one behaviour
MaxOracleCalls == 4      \* api_func calls of _cached_api_call on one day
MaxRecords == 1         \* cost records appended by track_api_call in one behaviour
MaxSyncFailureCount == 6    \* no run is started once sync_failure_count is here
MaxIterations == 3      \* sync_all_users calls of the scheduler in one behaviour

Callers == {"c1", "c2"}
None == -1
Free == "free"

\* ------------------------------------------------------------------------
\* CircuitBreaker
\* ------------------------------------------------------------------------
RecoveryTimeout == 2    \* recovery_timeout, in ticks
DefaultThreshold == 5   \* failure_threshold: int = 5
CLOSED == "closed"
OPEN == "open"
HALF_OPEN == "half_open"

\* _should_attempt_reset
ShouldAttemptReset_Always(last, t) == TRUE
ShouldAttemptReset(last, t) ==
    IF last = None THEN TRUE ELSE t - last >= RecoveryTimeout

\* the threshold test of _on_failure
ThresholdReached_Strict(count, threshold) == count > threshold
ThresholdReached(count, threshold) == count >= threshold

\* state after _on_success, given the state before
SuccessState_Keep(s) == s
SuccessState(s) == IF s = HALF_OPEN THEN CLOSED ELSE s

\* _failure_count after _on_success, given the state and the count before
SuccessCount_Reset(s, count) == 0
SuccessCount(s, count) == IF s = HALF_OPEN THEN 0 ELSE count

\* state after _on_failure, given the state before and the incremented count
FailureState(s, count, threshold) ==
    IF s = HALF_OPEN THEN OPEN
    ELSE IF ThresholdReached(count, threshold) THEN OPEN
    ELSE s

\* a new breaker; failure_threshold is the constructor's argument
NewCB(threshold) ==
    /\ cb_state = CLOSED
    /\ failure_count = 0
    /\ last_failure_time = None
    /\ failure_threshold = threshold
    /\ cb_pc = [c \in Callers |-> "idle"]
    /\ cb_event = <<"init", CLOSED>>
    /\ counted_failures = 0

\* _before_call reached from call()/__aenter__; the lock body has no await, so it is one step.
\* OPEN and no reset due: CircuitOpenError, the wrapped function is not awaited.
BeforeCall(c) ==
    /\ cb_pc[c] = "idle"
    /\ IF cb_state = OPEN
       THEN IF ShouldAttemptReset(last_failure_time, now)
            THEN /\ cb_state' = HALF_OPEN
                 /\ cb_pc' = [cb_pc EXCEPT ![c] = "in_call"]
            ELSE /\ cb_state' = cb_state
                 /\ cb_pc' = [cb_pc EXCEPT ![c] = "rejected"]
       ELSE /\ cb_state' = cb_state
            /\ cb_pc' = [cb_pc EXCEPT ![c] = "in_call"]
    /\ UNCHANGED <<failure_count, last_failure_time, failure_threshold, counted_failures>>
    /\ cb_event' = <<"before_call", cb_state>>
    /\ UNCHANGED <<now, rlVars, syncVars, budgetVars, clientVars, extVars>>

\* the caller has seen CircuitOpenError and may call again
Rejected(c) ==
    /\ cb_pc[c] = "rejected"
    /\ cb_pc' = [cb_pc EXCEPT ![c] = "idle"]
    /\ UNCHANGED <<cb_state, failure_count, last_failure_time, failure_threshold,
                   counted_failures>>
    /\ cb_event' = <<"rejected", cb_state>>
    /\ UNCHANGED <<now, rlVars, syncVars, budgetVars, clientVars, extVars>>

\* the wrapped function returned: __aexit__ with exc_type None -> _on_success
OnSuccess(c) ==
    /\ cb_pc[c] = "in_call"
    /\ cb_state' = SuccessState(cb_state)
    /\ failure_count' = SuccessCount(cb_state, failure_count)
    /\ last_failure_time' = IF cb_state = HALF_OPEN THEN None ELSE last_failure_time
    /\ counted_failures' = IF cb_state = HALF_OPEN THEN 0 ELSE counted_failures
    /\ cb_pc' = [cb_pc EXCEPT ![c] = "idle"]
    /\ UNCHANGED failure_threshold
    /\ cb_event' = <<"success", cb_state>>
    /\ UNCHANGED <<now, rlVars, syncVars, budgetVars, clientVars, extVars>>

\* the wrapped function raised an expected_exception: __aexit__ -> _on_failure
OnFailure(c) ==
    /\ cb_pc[c] = "in_call"
    /\ failure_count < MaxFailureCount
    /\ failure_count' = failure_count + 1
    /\ counted_failures' = counted_failures + 1
    /\ last_failure_time' = now
    /\ cb_state' = FailureState(cb_state, failure_count + 1, failure_threshold)
    /\ cb_pc' = [cb_pc EXCEPT ![c] = "idle"]
    /\ UNCHANGED failure_threshold
    /\ cb_event' = <<"failure", cb_state>>
    /\ UNCHANGED <<now, rlVars, syncVars, budgetVars, clientVars, extVars>>

\* the wrapped function raised something that is not an expected_exception
\* (or was cancelled): __aexit__ records nothing
OnUnexpected(c) ==
    /\ cb_pc[c] = "in_call"
    /\ cb_pc' = [cb_pc EXCEPT ![c] = "idle"]
    /\ UNCHANGED <<cb_state, failure_count, last_failure_time, failure_threshold,
                   counted_failures>>
    /\ cb_event' = <<"unexpected", cb_state>>
    /\ UNCHANGED <<now, rlVars, syncVars, budgetVars, clientVars, extVars>>

\* reset(): manual override
Reset ==
    /\ cb_state' = CLOSED
    /\ failure_count' = 0
    /\ counted_failures' = 0
    /\ last_failure_time' = None
    /\ UNCHANGED <<failure_threshold, cb_pc>>
    /\ cb_event' = <<"reset", cb_state>>
    /\ UNCHANGED <<now, rlVars, syncVars, budgetVars, clientVars, extVars>>

\* ------------------------------------------------------------------------
\* RateLimiter
\* ------------------------------------------------------------------------
CallsPerPeriod == 2     \* calls_per_period
PeriodTicks == 3        \* period_seconds, in ticks
Jitter == 1             \* the + 0.1 of sleep_time

RECURSIVE SelectInWindow(_, _)
\* [call_time for call_time in self.calls if now - call_time < self.period_seconds]
InWindow(t, call_time) == t - call_time < PeriodTicks
SelectInWindow(s, t) ==
    IF s = <<>> THEN <<>>
    ELSE IF InWindow(t, Head(s)) THEN <<Head(s)>> \o SelectInWindow(Tail(s), t)
    ELSE SelectInWindow(Tail(s), t)

\* len(self.calls) >= self.calls_per_period
LimitReached_Off(kept) == Len(kept) > CallsPerPeriod
LimitReached(kept) == Len(kept) >= CallsPerPeriod

\* sleep_time = self.period_seconds - (now - self.calls[0]) + 0.1
SleepTime(kept, t) == PeriodTicks - (t - kept[1]) + Jitter

InitRL ==
    /\ calls = <<>>
    /\ rl_lock = Free
    /\ rl_pc = [c \in Callers |-> "idle"]
    /\ rl_wake = [c \in Callers |-> 0]
    /\ rl_started = 0
    /\ admitted = <<>>

\* a caller starts acquire()
Acquire(c) ==
    /\ rl_pc[c] \in {"idle", "done"}
    /\ rl_started < MaxCalls
    /\ rl_started' = rl_started + 1
    /\ rl_pc' = [rl_pc EXCEPT ![c] = "wait_lock"]
    /\ UNCHANGED <<calls, rl_lock, rl_wake, admitted>>
    /\ UNCHANGED <<now, cbVars, syncVars, budgetVars, clientVars, extVars>>

\* `async with self._lock` obtained (asyncio.Lock is not reentrant: whoever
\* holds it, the caller waits), then the body up to the sleep or the append
EnterLock(c) ==
    /\ rl_pc[c] = "wait_lock"
    /\ rl_lock = Free
    /\ LET kept == SelectInWindow(calls, now) IN
       IF LimitReached(kept)
       THEN /\ calls' = kept
            /\ rl_lock' = c
            /\ rl_wake' = [rl_wake EXCEPT ![c] = now + SleepTime(kept, now)]
            /\ rl_pc' = [rl_pc EXCEPT ![c] = "sleeping"]
            /\ UNCHANGED admitted
       ELSE /\ calls' = Append(kept, now)
            /\ admitted' = Append(admitted, now)
            /\ rl_lock' = Free
            /\ rl_pc' = [rl_pc EXCEPT ![c] = "done"]
            /\ UNCHANGED rl_wake
    /\ UNCHANGED rl_started
    /\ UNCHANGED <<now, cbVars, syncVars, budgetVars, clientVars, extVars>>

\* asyncio.sleep(sleep_time) is over; `return await self.acquire()` is entered
\* while the enclosing `async with self._lock` still holds the lock
WakeAndRecurse(c) ==
    /\ rl_pc[c] = "sleeping"
    /\ now >= rl_wake[c]
    /\ rl_pc' = [rl_pc EXCEPT ![c] = "wait_lock"]
    /\ UNCHANGED <<calls, rl_lock, rl_wake, rl_started, admitted>>
    /\ UNCHANGED <<now, cbVars, syncVars, budgetVars, clientVars, extVars>>

\* ------------------------------------------------------------------------
\* SpotifyDataSync.sync_user_podcasts
\* ------------------------------------------------------------------------
Users == {"u1", "u2"}
NoId == "none"          \* a missing show / episode (None, {} or no 'id')

\* items of a payload as fetch_podcast_history builds them; bad = the episode
\* carries a release_date that datetime.fromisoformat rejects
Item(sh, ep, at, bad) == [show |-> sh, episode |-> ep, played_at |-> at, bad |-> bad]
Items ==
    { Item("s1", "e1", 1, FALSE),       \* an episode of show s1
      Item("s1", "e1", 2, FALSE),       \* the same episode played again later
      Item("s2", "e2", 2, FALSE),       \* an episode of another show
      Item("s2", NoId, None, FALSE),    \* a saved show: no episode, no played_at
      Item(NoId, "e2", 1, FALSE),       \* an episode whose show has no id
      Item("s1", "e3", 1, TRUE) }       \* an episode with a malformed release_date

\* the payloads tried: every sequence of at most two items
Payloads ==
    {<<>>} \cup {<<x>> : x \in Items} \cup {<<x, y>> : x \in Items, y \in Items}

EmptyStats == [new_shows |-> 0, new_episodes |-> 0, updated_shows |-> 0, errors |-> 0]

\* existing_shows[show_id] for the user's rows (0: not in the dict)
ShowIndex(tbl, u, sid) ==
    LET S == {i \in DOMAIN tbl : tbl[i].user_id = u /\ tbl[i].spotify_show_id = sid}
    IN IF S = {} THEN 0 ELSE CHOOSE i \in S : \A j \in S : j <= i

\* existing_episodes = {ep[0] for ep in user_episodes}
ExistingEpisodes(tbl, u) ==
    {tbl[i].spotify_episode_id : i \in {j \in DOMAIN tbl : tbl[j].user_id = u}}

\* `episode_id not in existing_episodes`, negated
EpisodeSeen_Never(existing, episode_id) == FALSE
EpisodeSeen(existing, episode_id) == episode_id \in existing

\* show.total_episodes_played after an item whose episode is new or not
EpisodesPlayed_Always(old, is_new) == old + 1
EpisodesPlayed(old, is_new) == IF is_new THEN old + 1 ELSE old

\* played_at or show.last_listened_at
LastListened(played_at, old) == IF played_at # None THEN played_at ELSE old

\* the body of the `for item in podcast_history` loop for one item, on the
\* run's accumulated state r = [shows, episodes, existing, stats, raised]
ProcessItem(r, u, item) ==
    IF item.show = NoId THEN r
    ELSE
    LET idx == ShowIndex(r.shows, u, item.show)
        shows1 ==
            IF idx # 0
            THEN [r.shows EXCEPT ![idx].last_listened_at =
                                    LastListened(item.played_at, @)]
            ELSE Append(r.shows, [user_id |-> u, spotify_show_id |-> item.show,
                                  last_listened_at |-> item.played_at,
                                  total_episodes_played |-> 0])
        sidx == IF idx # 0 THEN idx ELSE Len(shows1)
        stats1 ==
            IF idx # 0
            THEN [r.stats EXCEPT !.updated_shows = @ + 1]
            ELSE [r.stats EXCEPT !.new_shows = @ + 1]
        has_episode == item.episode # NoId /\ item.played_at # None
        is_new == has_episode /\ ~EpisodeSeen(r.existing, item.episode)
    IN  IF is_new /\ item.bad
        THEN [r EXCEPT !.shows = shows1, !.stats = stats1, !.raised = TRUE]
        ELSE [shows |->
                 [shows1 EXCEPT ![sidx].total_episodes_played =
                                    EpisodesPlayed(@, is_new)],
              episodes |->
                 IF is_new
                 THEN Append(r.episodes,
                             [user_id |-> u, spotify_episode_id |-> item.episode,
                              played_at |-> item.played_at,
                              podcast |-> item.show])
                 ELSE r.episodes,
              existing |-> IF is_new THEN r.existing \cup {item.episode}
                           ELSE r.existing,
              stats |-> IF is_new THEN [stats1 EXCEPT !.new_episodes = @ + 1]
                        ELSE stats1,
              raised |-> FALSE]

RECURSIVE ProcessItems(_, _, _)
\* the loop: it stops at the first item that raises
ProcessItems(r, u, items) ==
    IF items = <<>> \/ r.raised THEN r
    ELSE ProcessItems(ProcessItem(r, u, Head(items)), u, Tail(items))

InitSync ==
    /\ shows = <<>>
    /\ episodes = <<>>
    /\ sync_failure_count = [u \in Users |-> 0]
    /\ last_sync_error = [u \in Users |-> FALSE]
    /\ stats = EmptyStats
    /\ last_run = <<>>
    /\ rerun = FALSE
    /\ runs = 0

\* sync_user_podcasts(db, connection) for user u when fetch_podcast_history
\* returns `payload`. The loop has no await, so it is one step. On an
\* exception the handler's db.commit() also commits what the loop had added.
SyncUserPodcasts(u, payload) ==
    /\ runs < MaxRuns
    /\ runs' = runs + 1
    /\ LET r == ProcessItems([shows |-> shows, episodes |-> episodes,
                              existing |-> ExistingEpisodes(episodes, u),
                              stats |-> EmptyStats, raised |-> FALSE],
                             u, payload)
       IN /\ shows' = r.shows
          /\ episodes' = r.episodes
          /\ IF r.raised
             THEN /\ stats' = [r.stats EXCEPT !.errors = 1]
                  /\ sync_failure_count' = [sync_failure_count EXCEPT ![u] = @ + 1]
                  /\ last_sync_error' = [last_sync_error EXCEPT ![u] = TRUE]
             ELSE /\ stats' = r.stats
                  /\ sync_failure_count' = [sync_failure_count EXCEPT ![u] = 0]
                  /\ last_sync_error' = [last_sync_error EXCEPT ![u] = FALSE]
    /\ last_run' = <<u, payload>>
    /\ rerun' = (last_run = <<u, payload>>)
    /\ UNCHANGED <<now, cbVars, rlVars, budgetVars, clientVars, extVars>>

\* sync_user_podcasts when fetch_podcast_history raises (token, budget,
\* network): nothing is processed, the failure is recorded
SyncFetchFails(u) ==
    /\ runs < MaxRuns
    /\ runs' = runs + 1
    /\ stats' = [EmptyStats EXCEPT !.errors = 1]
    /\ sync_failure_count' = [sync_failure_count EXCEPT ![u] = @ + 1]
    /\ last_sync_error' = [last_sync_error EXCEPT ![u] = TRUE]
    /\ last_run' = <<>>
    /\ rerun' = FALSE
    /\ UNCHANGED <<shows, episodes>>
    /\ UNCHANGED <<now, cbVars, rlVars, budgetVars, clientVars, extVars>>

\* ------------------------------------------------------------------------
\* RealAWSCostTracker._check_budget_limits
\* ------------------------------------------------------------------------
\* the defaults of Settings, in units of $0.10
DefaultLimits == [daily |-> 50, weekly |-> 250, monthly |-> 1000, emergency |-> 500]
\* other settings tried: an emergency ceiling above the monthly limit, tight
\* weekly and monthly limits
LimitSettings ==
    { DefaultLimits,
      [daily |-> 50, weekly |-> 250, monthly |-> 1000, emergency |-> 1200],
      [daily |-> 50, weekly |-> 60, monthly |-> 200, emergency |-> 500] }

\* what a get_real_*_spend call gives: an amount, or it raises
Spent(a) == [ok |-> TRUE, amount |-> a]
Raises == [ok |-> FALSE, amount |-> 0]
DailySpends == {Raises, Spent(10), Spent(38), Spent(45)}
WeeklySpends == {Raises, Spent(50), Spent(245)}
MonthlySpends == {Raises, Spent(150), Spent(495), Spent(995)}
Costs == {2, 4, 5, 6}

INFO == "info"
WARNING == "warning"
CRITICAL == "critical"
EMERGENCY == "emergency"

\* spend + additional_cost > limit
Exceeds_OrEqual(spend, cost, limit) == spend + cost >= limit
Exceeds(spend, cost, limit) == spend + cost > limit

\* daily_spend + additional_cost > self.daily_limit * Decimal('0.8')
AboveWarning(spend, cost, limit) == 10 * (spend + cost) > 8 * limit

\* `except Exception`: "Fail safe - allow operation but log error"
FailSafe_Deny == [allow |-> FALSE, alerts |-> <<>>]
FailSafe == [allow |-> TRUE, alerts |-> <<>>]

\* _check_budget_limits(additional_cost) when the three queries give daily,
\* weekly and monthly: [allow, alerts]
CheckBudgetLimits(daily, weekly, monthly, cost, lim) ==
    IF ~daily.ok \/ ~weekly.ok \/ ~monthly.ok
    THEN FailSafe
    ELSE IF Exceeds(daily.amount, cost, lim.daily)
    THEN [allow |-> FALSE, alerts |-> <<CRITICAL>>]
    ELSE IF Exceeds(weekly.amount, cost, lim.weekly)
    THEN [allow |-> FALSE, alerts |-> <<CRITICAL>>]
    ELSE IF Exceeds(monthly.amount, cost, lim.monthly)
    THEN [allow |-> FALSE, alerts |-> <<CRITICAL>>]
    ELSE IF Exceeds(monthly.amount, cost, lim.emergency)
    THEN [allow |-> FALSE, alerts |-> <<EMERGENCY>>]
    ELSE IF AboveWarning(daily.amount, cost, lim.daily)
    THEN [allow |-> TRUE, alerts |-> <<WARNING>>]
    ELSE [allow |-> TRUE, alerts |-> <<>>]

\* RealAWSCostTracker.__init__ with the given settings
NewTracker(lim) ==
    /\ daily_limit = lim.daily
    /\ weekly_limit = lim.weekly
    /\ monthly_limit = lim.monthly
    /\ emergency_limit = lim.emergency
    /\ bg_query = <<>>
    /\ bg_result = TRUE
    /\ bg_alerts = <<>>
    /\ cost_records = 0
    /\ tr_query = <<>>
    /\ tr_result = "none"
    /\ tr_alerts = <<>>

Limits ==
    [daily |-> daily_limit, weekly |-> weekly_limit, monthly |-> monthly_limit,
     emergency |-> emergency_limit]

\* one call of _check_budget_limits
CheckBudget(daily, weekly, monthly, cost) ==
    /\ LET r == CheckBudgetLimits(daily, weekly, monthly, cost, Limits) IN
        /\ bg_result' = r.allow
        /\ bg_alerts' = r.alerts
    /\ bg_query' = [daily |-> daily, weekly |-> weekly, monthly |-> monthly,
                    cost |-> cost]
    /\ tr_query' = <<>>
    /\ tr_result' = "none"
    /\ tr_alerts' = <<>>
    /\ UNCHANGED <<daily_limit, weekly_limit, monthly_limit, emergency_limit, cost_records>>
    /\ UNCHANGED <<now, cbVars, rlVars, syncVars, clientVars, extVars>>

\* the alerts of a blocked operation: _send_emergency_alert adds an EMERGENCY
\* alert to those of the check
BlockedAlerts_None(alerts) == alerts
BlockedAlerts(alerts) == Append(alerts, EMERGENCY)

\* track_api_call(service, operation, estimated_cost): `enabled` is
\* settings.enable_cost_tracking, `again` what get_real_monthly_spend gives
\* when _send_emergency_alert evaluates its arguments (if it raises, the
\* exception leaves track_api_call)
TrackApiCall(enabled, daily, weekly, monthly, again, cost) ==
    /\ cost_records < MaxRecords
    /\ tr_query' = [enabled |-> enabled, again |-> again.ok]
    /\ IF ~enabled
       THEN /\ tr_result' = "allow"
            /\ tr_alerts' = <<>>
            /\ UNCHANGED <<cost_records, bg_query, bg_result, bg_alerts>>
       ELSE LET r == CheckBudgetLimits(daily, weekly, monthly, cost, Limits) IN
            /\ cost_records' = cost_records + 1
            /\ bg_query' = [daily |-> daily, weekly |-> weekly, monthly |-> monthly,
                            cost |-> cost]
            /\ bg_result' = r.allow
            /\ bg_alerts' = r.alerts
            /\ tr_result' = IF r.allow THEN "allow"
                            ELSE IF again.ok THEN "deny" ELSE "raised"
            /\ tr_alerts' = IF ~r.allow /\ again.ok THEN BlockedAlerts(r.alerts)
                            ELSE r.alerts
    /\ UNCHANGED <<daily_limit, weekly_limit, monthly_limit, emergency_limit>>
    /\ UNCHANGED <<now, cbVars, rlVars, syncVars, clientVars, extVars>>

\* ------------------------------------------------------------------------
\* SpotifyOAuth token calls and SpotifyClient._make_request
\* ------------------------------------------------------------------------
ClientUser == "u1"      \* connection.user_id of the client's connection
MaxRetries == 3         \* config.max_retries
NetworkRetries == 3     \* the literal of `if retry_count < 3`
BackoffFactor == 1      \* config.backoff_factor
DefaultConfig == [max_retries |-> MaxRetries, backoff_factor |-> BackoffFactor]
ConfigSettings == {DefaultConfig, [max_retries |-> 2, backoff_factor |-> 2]}
RetryAfterHints == {1, 2}   \* the Retry-After header of a 429, in ticks
ExpiresIn == 3          \* token_data['expires_in'], in ticks
SafetyMargin == 1       \* the 60 s margin the specification gives ensure_valid_token
Statuses == {"200", "401", "429", "500", "404", "network"}
TokenStatuses == {"200", "400", "network"}

\* refresh_access_token / exchange_code_for_tokens: the budget check comes
\* first, then the POST. [http: POSTs sent, ok, exc: class raised, err]
TokenCall(can_proceed, status) ==
    IF ~can_proceed
    THEN [http |-> 0, ok |-> FALSE, exc |-> "exception", err |-> "token_budget"]
    ELSE IF status = "network"
    THEN [http |-> 1, ok |-> FALSE, exc |-> "client_error", err |-> "network"]
    ELSE IF status # "200"
    THEN [http |-> 1, ok |-> FALSE, exc |-> "exception", err |-> "token"]
    ELSE [http |-> 1, ok |-> TRUE, exc |-> "none", err |-> "none"]

\* connection.is_token_expired
IsTokenExpired(t, expires_at) == t >= expires_at

\* what follows `if not can_proceed: raise` in _make_request
AfterBudget_AcquireFirst(can_proceed) == "rate"
AfterBudget(can_proceed) == IF can_proceed THEN "rate" ELSE "raise"

InitClient ==
    /\ rq_pc = "idle"
    /\ rq_exc = "none"
    /\ rq_err = "none"
    /\ rq_frames = <<>>
    /\ retry_count = 0
    /\ token_expires_at = 0
    /\ cl_calls = <<>>
    /\ inv_http = 0
    /\ inv_slots = 0
    /\ inv_token_http = 0
    /\ oauth_result = "none"
    /\ oauth_http = 0
    /\ rq_attempts = 0
    /\ api_rows = 0

\* get_spotify_config()
InitConfig(cfg) ==
    /\ max_retries = cfg.max_retries
    /\ backoff_factor = cfg.backoff_factor

rq_log == <<rq_attempts, api_rows>>
clientFrame == <<cbVars, rlVars, budgetVars, extVars, shows, episodes, stats, last_run, rerun, runs>>

\* the innermost invocation is entered: its history counters start at 0
EnterInvocation ==
    /\ rq_pc' = "token"
    /\ rq_exc' = "none"
    /\ rq_err' = "none"
    /\ inv_http' = 0
    /\ inv_slots' = 0
    /\ inv_token_http' = 0

\* SpotifyOAuth.exchange_code_for_tokens(code, code_verifier, user_id); the
\* tokens it returns are stored by save_tokens, which creates the connection
\* the client is later built on
ExchangeCodeForTokens(can_proceed, status) ==
    /\ rq_pc = "idle"
    /\ oauth_result # "tokens"
    /\ LET r == TokenCall(can_proceed, status) IN
        /\ oauth_http' = r.http
        /\ oauth_result' = IF r.ok THEN "tokens" ELSE r.err
        /\ token_expires_at' = IF r.ok THEN now + ExpiresIn ELSE token_expires_at
    /\ UNCHANGED <<rq_pc, rq_exc, rq_err, rq_frames, retry_count,
                   cl_calls, inv_http, inv_slots, inv_token_http, rq_log>>
    /\ UNCHANGED <<now, clientFrame, sync_failure_count, last_sync_error>>

\* a caller (get_recently_played, get_show, ...) calls _make_request
StartRequest ==
    /\ rq_pc \in {"idle", "done", "failed"}
    /\ oauth_result = "tokens"
    /\ sync_failure_count[ClientUser] < MaxTokenFailures
    /\ EnterInvocation
    /\ rq_frames' = <<>>
    /\ retry_count' = 0
    /\ rq_attempts' = 0
    /\ api_rows' = 0
    /\ UNCHANGED <<token_expires_at, cl_calls, oauth_result, oauth_http>>
    /\ UNCHANGED <<now, clientFrame, sync_failure_count, last_sync_error>>

\* access_token = await self.oauth.ensure_valid_token(self.db, self.connection)
EnsureValidToken(can_proceed, status) ==
    /\ rq_pc = "token"
    /\ IF ~IsTokenExpired(now, token_expires_at)
       THEN /\ rq_pc' = "budget"
            /\ UNCHANGED <<rq_exc, rq_err, token_expires_at, inv_token_http,
                           sync_failure_count, last_sync_error>>
       ELSE LET r == TokenCall(can_proceed, status) IN
            /\ inv_token_http' = inv_token_http + r.http
            /\ IF r.ok
               THEN /\ token_expires_at' = now + ExpiresIn
                    /\ rq_pc' = "budget"
                    /\ UNCHANGED <<rq_exc, rq_err, sync_failure_count, last_sync_error>>
               ELSE /\ sync_failure_count' =
                            [sync_failure_count EXCEPT ![ClientUser] = @ + 1]
                    /\ last_sync_error' = [last_sync_error EXCEPT ![ClientUser] = TRUE]
                    /\ rq_pc' = "raise"
                    /\ rq_exc' = r.exc
                    /\ rq_err' = r.err
                    /\ UNCHANGED token_expires_at
    /\ UNCHANGED <<rq_frames, retry_count, cl_calls, inv_http,
                   inv_slots, oauth_result, oauth_http, rq_log>>
    /\ UNCHANGED <<now, clientFrame>>

\* can_proceed = await self.cost_tracker.check_budget_before_operation(...)
\* if not can_proceed: raise Exception("Budget limit exceeded ...")
CheckBudgetBeforeOperation(can_proceed) ==
    /\ rq_pc = "budget"
    /\ rq_pc' = AfterBudget(can_proceed)
    /\ rq_exc' = IF can_proceed THEN rq_exc ELSE "exception"
    /\ rq_err' = IF can_proceed THEN rq_err ELSE "budget"
    /\ UNCHANGED <<rq_frames, retry_count, token_expires_at, cl_calls,
                   inv_http, inv_slots, inv_token_http, oauth_result, oauth_http, rq_log>>
    /\ UNCHANGED <<now, clientFrame, sync_failure_count, last_sync_error>>

\* await self.rate_limiter.acquire() on the client's own limiter: a slot is
\* taken, or the limit is reached and acquire() sleeps holding its lock and
\* then waits for that lock in the recursive call
RateLimiterAcquire ==
    /\ rq_pc = "rate"
    /\ LET kept == SelectInWindow(cl_calls, now) IN
       IF LimitReached(kept)
       THEN /\ cl_calls' = kept
            /\ rq_pc' = "blocked"
            /\ UNCHANGED inv_slots
       ELSE /\ cl_calls' = Append(kept, now)
            /\ rq_pc' = "http"
            /\ inv_slots' = inv_slots + 1
    /\ UNCHANGED <<rq_exc, rq_err, rq_frames, retry_count, token_expires_at,
                   inv_http, inv_token_http, oauth_result, oauth_http, rq_log>>
    /\ UNCHANGED <<now, clientFrame, sync_failure_count, last_sync_error>>

\* the retry decisions of _make_request
RetryOn429_OneMore(count, limit) == count <= limit
RetryOn429(count, limit) == count < limit
RetryOnNetwork(count) == count < NetworkRetries
\* 2 ** retry_count
NetworkBackoff(count) == 2 ^ count
\* a SpotifyAPICall row is added inside `async with ... as response`, that is
\* only when a response arrived
RowAdded(status) == status # "network"
\* the call sites of the nested _make_request: after a 401, after a 429 (both
\* in the try body) and in the ClientError handler
InTryBody(site) == site \in {"on_401", "on_429"}

\* `await asyncio.sleep(d)` of the only running request: the clock moves on by d
Sleep(d) ==
    /\ now + d <= MaxTime
    /\ now' = now + d

\* a nested `return await self._make_request(..., retry_count + 1)` made from
\* the call site `site`
Recurse(site) ==
    /\ EnterInvocation
    /\ rq_frames' = Append(rq_frames, site)
    /\ retry_count' = retry_count + 1

\* self._session.request(...) and the classification of its outcome
HttpAttempt(status, retry_after) ==
    /\ rq_pc = "http"
    /\ rq_attempts' = rq_attempts + 1
    /\ api_rows' = IF RowAdded(status) THEN api_rows + 1 ELSE api_rows
    /\ CASE status = "200" ->
                /\ rq_pc' = "done"
                /\ rq_frames' = <<>>
                /\ inv_http' = inv_http + 1
                /\ UNCHANGED <<rq_exc, rq_err, retry_count, token_expires_at, inv_slots,
                               inv_token_http, now>>
         [] status = "401" ->
                /\ retry_count < MaxDepth
                /\ token_expires_at' = now
                /\ Recurse("on_401")
                /\ UNCHANGED now
         [] status = "429" /\ RetryOn429(retry_count, max_retries) ->
                /\ Sleep(retry_after)
                /\ Recurse("on_429")
                /\ UNCHANGED token_expires_at
         [] status = "network" /\ RetryOnNetwork(retry_count) ->
                /\ Sleep(NetworkBackoff(retry_count))
                /\ Recurse("on_network")
                /\ UNCHANGED token_expires_at
         [] OTHER ->
                /\ rq_pc' = "raise"
                /\ rq_exc' = IF status = "network" THEN "client_error" ELSE "exception"
                /\ rq_err' = IF status = "network" THEN "network"
                             ELSE IF status = "429" THEN "rate_limit" ELSE "api"
                /\ inv_http' = inv_http + 1
                /\ UNCHANGED <<rq_frames, retry_count, token_expires_at, inv_slots,
                               inv_token_http, now>>
    /\ UNCHANGED <<cl_calls, oauth_result, oauth_http>>
    /\ UNCHANGED <<clientFrame, sync_failure_count, last_sync_error>>

\* the exception leaves the innermost invocation: the caller sees it, or the
\* waiting outer invocation does. An outer invocation waiting in its try body
\* catches a ClientError in `except aiohttp.ClientError` (and retries while its
\* own retry_count < 3) and anything else in `except Exception` (re-raised
\* wrapped); one waiting in its handler lets it pass.
Propagate ==
    /\ rq_pc = "raise"
    /\ IF rq_frames = <<>>
       THEN /\ rq_pc' = "failed"
            /\ UNCHANGED <<rq_exc, rq_err, rq_frames, retry_count, inv_http, inv_slots,
                           inv_token_http, now>>
       ELSE LET top == rq_frames[Len(rq_frames)]
                outer == SubSeq(rq_frames, 1, Len(rq_frames) - 1)
            IN  IF InTryBody(top) /\ rq_exc = "client_error"
                        /\ RetryOnNetwork(retry_count - 1)
                THEN /\ Sleep(NetworkBackoff(retry_count - 1))
                     /\ EnterInvocation
                     /\ rq_frames' = Append(outer, "on_network")
                     /\ UNCHANGED retry_count
                ELSE /\ rq_frames' = outer
                     /\ retry_count' = retry_count - 1
                     /\ UNCHANGED <<rq_pc, rq_exc, rq_err, inv_http, inv_slots,
                                    inv_token_http, now>>
    /\ UNCHANGED <<token_expires_at, cl_calls, oauth_result,
                   oauth_http, rq_log>>
    /\ UNCHANGED <<clientFrame, sync_failure_count, last_sync_error>>

\* ------------------------------------------------------------------------
\* SpotifyOAuth.ensure_valid_token called by concurrent requests on the
\* connection of ClientUser
\* ------------------------------------------------------------------------
InitRefresh ==
    /\ ev_pc = [c \in Callers |-> "idle"]
    /\ ev_sent = [c \in Callers |-> None]
    /\ refresh_token = 0

refreshFrame == <<cbVars, rlVars, budgetVars, shows, episodes, stats, last_run, rerun, runs,
                  rq_pc, rq_exc, rq_err, rq_frames, retry_count, cl_calls, inv_http,
                  inv_slots, inv_token_http, oauth_result, oauth_http, rq_log, cfgVars,
                  instVars, stateVars, connVars, schedVars, cacheVars>>

\* `if not connection.is_token_expired: return connection.access_token`;
\* otherwise refresh_access_token(connection.refresh_token, ...) is called and
\* suspends at its budget check
EvCheck(c) ==
    /\ ev_pc[c] = "idle"
    /\ sync_failure_count[ClientUser] < MaxTokenFailures
    /\ IF ~IsTokenExpired(now, token_expires_at)
       THEN /\ ev_pc' = [ev_pc EXCEPT ![c] = "returned"]
            /\ UNCHANGED ev_sent
       ELSE /\ ev_pc' = [ev_pc EXCEPT ![c] = "refreshing"]
            /\ ev_sent' = [ev_sent EXCEPT ![c] = refresh_token]
    /\ UNCHANGED <<refresh_token, token_expires_at, sync_failure_count, last_sync_error>>
    /\ UNCHANGED <<now, refreshFrame>>

\* the budget check of refresh_access_token answers: the POST is sent, or the
\* call raises and ensure_valid_token's handler counts the failure
EvPost(c, can_proceed) ==
    /\ ev_pc[c] = "refreshing"
    /\ IF can_proceed
       THEN /\ ev_pc' = [ev_pc EXCEPT ![c] = "posting"]
            /\ UNCHANGED <<ev_sent, sync_failure_count, last_sync_error>>
       ELSE /\ ev_pc' = [ev_pc EXCEPT ![c] = "raised"]
            /\ ev_sent' = [ev_sent EXCEPT ![c] = None]
            /\ sync_failure_count' = [sync_failure_count EXCEPT ![ClientUser] = @ + 1]
            /\ last_sync_error' = [last_sync_error EXCEPT ![ClientUser] = TRUE]
    /\ UNCHANGED <<refresh_token, token_expires_at>>
    /\ UNCHANGED <<now, refreshFrame>>

\* the token endpoint answers; on 200 the connection is updated, the refresh
\* token too when the answer carries a new one
EvResponse(c, status, rotated) ==
    /\ ev_pc[c] = "posting"
    /\ rotated => refresh_token < MaxRotations
    /\ ev_sent' = [ev_sent EXCEPT ![c] = None]
    /\ IF status = "200"
       THEN /\ ev_pc' = [ev_pc EXCEPT ![c] = "returned"]
            /\ token_expires_at' = now + ExpiresIn
            /\ refresh_token' = IF rotated THEN refresh_token + 1 ELSE refresh_token
            /\ UNCHANGED <<sync_failure_count, last_sync_error>>
       ELSE /\ ev_pc' = [ev_pc EXCEPT ![c] = "raised"]
            /\ sync_failure_count' = [sync_failure_count EXCEPT ![ClientUser] = @ + 1]
            /\ last_sync_error' = [last_sync_error EXCEPT ![ClientUser] = TRUE]
            /\ UNCHANGED <<token_expires_at, refresh_token>>
    /\ UNCHANGED <<now, refreshFrame>>

\* the caller has its token or its exception
EvReturn(c) ==
    /\ ev_pc[c] \in {"returned", "raised"}
    /\ ev_pc' = [ev_pc EXCEPT ![c] = "idle"]
    /\ UNCHANGED <<ev_sent, refresh_token, token_expires_at, sync_failure_count,
                   last_sync_error>>
    /\ UNCHANGED <<now, refreshFrame>>

\* ------------------------------------------------------------------------
\* Several SpotifyClient instances calling the remote platform
\* ------------------------------------------------------------------------
Clients == {"k1", "k2"}     \* e.g. the clients of two syncs, or of two requests

InitClients ==
    /\ inst_calls = [k \in Clients |-> <<>>]
    /\ inst_pc = [k \in Clients |-> "ready"]
    /\ inst_admitted = <<>>

clientsFrame == <<cbVars, rlVars, syncVars, budgetVars, clientVars, refreshVars, cfgVars,
                  stateVars, connVars, schedVars, cacheVars>>

\* SpotifyClient(db, connection): __init__ builds a RateLimiter of its own
NewSpotifyClient(k) ==
    /\ inst_calls[k] # <<>> \/ inst_pc[k] # "ready"
    /\ inst_calls' = [inst_calls EXCEPT ![k] = <<>>]
    /\ inst_pc' = [inst_pc EXCEPT ![k] = "ready"]
    /\ UNCHANGED inst_admitted
    /\ UNCHANGED <<now, clientsFrame>>

\* await self.rate_limiter.acquire() in a _make_request of client k
ClientAcquire(k) ==
    /\ inst_pc[k] = "ready"
    /\ Len(inst_admitted) < MaxCalls
    /\ LET kept == SelectInWindow(inst_calls[k], now) IN
       IF LimitReached(kept)
       THEN /\ inst_calls' = [inst_calls EXCEPT ![k] = kept]
            /\ inst_pc' = [inst_pc EXCEPT ![k] = "blocked"]
            /\ UNCHANGED inst_admitted
       ELSE /\ inst_calls' = [inst_calls EXCEPT ![k] = Append(kept, now)]
            /\ inst_admitted' = Append(inst_admitted, now)
            /\ UNCHANGED inst_pc
    /\ UNCHANGED <<now, clientsFrame>>

\* ------------------------------------------------------------------------
\* SpotifyAuthState
\* ------------------------------------------------------------------------
StateTtl == 2               \* expires_in of save_state (600 s), in ticks
StateIds == {"st1", "st2"}
Bindings == {[user_id |-> "u1", code_verifier |-> "v1"],
             [user_id |-> "u2", code_verifier |-> "v2"]}
NoState == [user_id |-> NoId, code_verifier |-> NoId, expires_at |-> None]

\* _clean_expired_states: states with expires_at < now are deleted
CleanExpiredStates(tbl, t) ==
    [st \in StateIds |->
        IF tbl[st] # NoState /\ tbl[st].expires_at < t THEN NoState ELSE tbl[st]]

\* cls._states.pop(state, None): what is left in the dict
Pop_Keep(tbl, st) == tbl
Pop(tbl, st) == [tbl EXCEPT ![st] = NoState]

InitAuthState ==
    /\ auth_states = [st \in StateIds |-> NoState]
    /\ st_saved = [st \in StateIds |-> NoState]
    /\ st_returns = [st \in StateIds |-> 0]
    /\ st_result = <<>>

stateFrame == <<cbVars, rlVars, syncVars, budgetVars, clientVars, refreshVars, cfgVars,
                instVars, connVars, schedVars, cacheVars>>

\* SpotifyAuthState.save_state(state, user_id, code_verifier)
SaveState(st, b) ==
    /\ LET data == [user_id |-> b.user_id, code_verifier |-> b.code_verifier,
                    expires_at |-> now + StateTtl]
       IN  /\ auth_states' = CleanExpiredStates([auth_states EXCEPT ![st] = data], now)
           /\ st_saved' = [st_saved EXCEPT ![st] = data]
    /\ st_returns' = [st_returns EXCEPT ![st] = 0]
    /\ UNCHANGED st_result
    /\ UNCHANGED <<now, stateFrame>>

\* SpotifyAuthState.get_state(state)
GetState(st) ==
    /\ LET cleaned == CleanExpiredStates(auth_states, now) IN
        /\ st_result' = [state |-> st, at |-> now, data |-> cleaned[st]]
        /\ auth_states' = Pop(cleaned, st)
        /\ st_returns' = IF cleaned[st] # NoState
                         THEN [st_returns EXCEPT ![st] = @ + 1]
                         ELSE st_returns
    /\ UNCHANGED st_saved
    /\ UNCHANGED <<now, stateFrame>>

\* ------------------------------------------------------------------------
\* SpotifyConnection rows: save_tokens, sync_user_podcasts called from the
\* API (callback and POST /sync), and the failure counter
\* ------------------------------------------------------------------------
SyncFailureLimit == 5       \* `sync_failure_count < 5` / `>= 5`
SyncOutcomes == {"ok", "item_error", "fetch_failed", "refresh_failed"}

\* what one exception does to sync_failure_count on its way out of a run:
\* ensure_valid_token counts a failed refresh and re-raises, then the handler
\* of sync_user_podcasts counts the run
FailureCountAfter(count, outcome) ==
    IF outcome = "refresh_failed" THEN (count + 1) + 1 ELSE count + 1

InitConnections ==
    /\ connected = {}
    /\ last_sync_at = [u \in Users |-> None]

connFrame == <<cbVars, rlVars, budgetVars, clientVars, refreshVars, cfgVars, instVars,
               stateVars, cacheVars, shows, episodes, stats, last_run, rerun, runs>>

\* SpotifyOAuth.save_tokens(db, user_id, spotify_user_id, token_data)
SaveTokens(u) ==
    /\ connected' = connected \cup {u}
    /\ sync_failure_count' = [sync_failure_count EXCEPT ![u] = 0]
    /\ UNCHANGED <<now, connFrame, schedVars, last_sync_at, last_sync_error>>

\* sync_user_podcasts(db, connection) as the API calls it: the callback
\* after save_tokens and POST /sync, whatever sync_failure_count is
SyncUser(u, outcome) ==
    /\ u \in connected
    /\ sync_failure_count[u] < MaxSyncFailureCount
    /\ last_sync_at' = [last_sync_at EXCEPT ![u] = now]
    /\ IF outcome = "ok"
       THEN /\ sync_failure_count' = [sync_failure_count EXCEPT ![u] = 0]
            /\ last_sync_error' = [last_sync_error EXCEPT ![u] = FALSE]
       ELSE /\ sync_failure_count' =
                    [sync_failure_count EXCEPT ![u] = FailureCountAfter(@, outcome)]
            /\ last_sync_error' = [last_sync_error EXCEPT ![u] = TRUE]
    /\ UNCHANGED <<now, connFrame, schedVars, connected>>

\* ------------------------------------------------------------------------
\* SpotifySyncScheduler.start / stop and SpotifyDataSync.sync_all_users
\* ------------------------------------------------------------------------
SyncInterval == 4           \* sync_interval_hours, in ticks of this component
ErrorBackoff == 1           \* asyncio.sleep(300), in the same ticks

\* SpotifyConnection.needs_sync(hours)
NeedsSync(last, t) == last = None \/ t - last >= SyncInterval

\* the connections sync_all_users is to sync: sync_failure_count < 5 and needs_sync
Due == {u \in connected : /\ sync_failure_count[u] < SyncFailureLimit
                          /\ NeedsSync(last_sync_at[u], now)}

InitScheduler ==
    /\ sched_running = FALSE
    /\ sched_pc = "new"
    /\ sched_wake = None
    /\ sched_iter = 0
    /\ sa_due = {}
    /\ sa_synced = {}

schedFrame == <<cbVars, rlVars, syncVars, budgetVars, clientVars, refreshVars, cfgVars,
                instVars, stateVars, connVars, cacheVars>>

\* start(): self._running = True, then the while test
SchedStart ==
    /\ sched_pc = "new"
    /\ sched_running' = TRUE
    /\ sched_pc' = "test"
    /\ UNCHANGED <<now, schedFrame, sched_wake, sched_iter, sa_due, sa_synced>>

\* one iteration of `while self._running`: sync_all_users() is awaited. Its
\* `async with get_db_session()` is given the object of a contextlib
\* @contextmanager, which has no __aenter__, so the statement raises
\* TypeError before the query; start() catches it and sleeps 300 s
SyncAllUsers ==
    /\ sched_pc = "test"
    /\ sched_running
    /\ sched_iter < MaxIterations
    /\ sched_iter' = sched_iter + 1
    /\ sa_due' = Due
    /\ sa_synced' = {}
    /\ sched_pc' = "backoff"
    /\ sched_wake' = now + ErrorBackoff
    /\ UNCHANGED <<now, schedFrame, sched_running>>

\* the sleep of the handler ends
SchedWake ==
    /\ sched_pc = "backoff"
    /\ now >= sched_wake
    /\ sched_pc' = "test"
    /\ sched_wake' = None
    /\ UNCHANGED <<now, schedFrame, sched_running, sched_iter, sa_due, sa_synced>>

\* the while test finds _running false: start() returns
SchedReturn ==
    /\ sched_pc = "test"
    /\ ~sched_running
    /\ sched_pc' = "done"
    /\ UNCHANGED <<now, schedFrame, sched_running, sched_wake, sched_iter, sa_due, sa_synced>>

\* stop()
SchedStop ==
    /\ sched_running
    /\ sched_running' = FALSE
    /\ UNCHANGED <<now, schedFrame, sched_pc, sched_wake, sched_iter, sa_due, sa_synced>>

\* ------------------------------------------------------------------------
\* CostAwareCostTracker._cached_api_call (one tick of this component is 6 h)
\* ------------------------------------------------------------------------
CacheDuration == 1          \* cache_duration_hours = 6
DayLength == 4              \* a calendar day (UTC), 24 h
MaxDailyApiCalls == 2       \* max_daily_api_calls (10 in the source, scaled)
\* _get_cache_key(operation, **kwargs) of the wrapped queries
CacheKeys == {"daily_spend", "weekly_spend", "service_costs|days=7"}

Day(t) == t \div DayLength
Days == 0..Day(MaxTime + 1)

\* _is_cache_valid(timestamp_str)
IsCacheValid(cached_time, t) == t - cached_time < CacheDuration

\* _count_todays_api_calls(): the cache entries whose timestamp is of today
CountTodaysApiCalls(cache, t) ==
    Cardinality({k \in CacheKeys : cache[k] # None /\ Day(cache[k]) = Day(t)})

InitCostCache ==
    /\ cost_cache = [k \in CacheKeys |-> None]
    /\ oracle_calls = [d \in Days |-> 0]
    /\ ca_last = "none"

\* _cached_api_call(operation, api_func, **kwargs) with cache key `key`;
\* ok = api_func returns (it raises otherwise, and nothing is cached)
CachedApiCall(key, ok) ==
    /\ IF cost_cache[key] # None /\ IsCacheValid(cost_cache[key], now)
       THEN /\ ca_last' = "cached"
            /\ UNCHANGED <<cost_cache, oracle_calls>>
       ELSE IF CountTodaysApiCalls(cost_cache, now) >= MaxDailyApiCalls
       THEN /\ ca_last' = IF cost_cache[key] # None THEN "expired_cache" ELSE "default"
            /\ UNCHANGED <<cost_cache, oracle_calls>>
       ELSE /\ oracle_calls[Day(now)] < MaxOracleCalls
            /\ oracle_calls' = [oracle_calls EXCEPT ![Day(now)] = @ + 1]
            /\ IF ok
               THEN /\ cost_cache' = [cost_cache EXCEPT ![key] = now]
                    /\ ca_last' = "called"
               ELSE /\ ca_last' = "raised"
                    /\ UNCHANGED cost_cache
    /\ UNCHANGED <<now, cbVars, rlVars, syncVars, budgetVars, clientVars, refreshVars,
                   cfgVars, instVars, stateVars, connVars, schedVars>>

\* ------------------------------------------------------------------------
\* Clock
\* ------------------------------------------------------------------------
Tick ==
    /\ now < MaxTime
    /\ now' = now + 1
    /\ UNCHANGED <<cbVars, rlVars, syncVars, budgetVars, clientVars, extVars>>

\* ------------------------------------------------------------------------
\* Specifications
\* ------------------------------------------------------------------------
vars == <<now, cbVars, rlVars, syncVars, budgetVars, clientVars, extVars>>

Init ==
    /\ now = 0
    /\ NewCB(DefaultThreshold)
    /\ InitRL
    /\ InitSync
    /\ NewTracker(DefaultLimits)
    /\ InitClient
    /\ InitConfig(DefaultConfig)
    /\ InitRefresh
    /\ InitClients
    /\ InitAuthState
    /\ InitConnections
    /\ InitScheduler
    /\ InitCostCache

\* breakers are built with any failure_threshold >= 1
InitCB ==
    /\ now = 0
    /\ \E threshold \in 1..MaxThreshold : NewCB(threshold)
    /\ InitRL
    /\ InitSync
    /\ NewTracker(DefaultLimits)
    /\ InitClient
    /\ InitConfig(DefaultConfig)
    /\ InitRefresh
    /\ InitClients
    /\ InitAuthState
    /\ InitConnections
    /\ InitScheduler
    /\ InitCostCache

NextCB ==
    \/ \E c \in Callers : BeforeCall(c)
    \/ \E c \in Callers : Rejected(c)
    \/ \E c \in Callers : OnSuccess(c)
    \/ \E c \in Callers : OnFailure(c)
    \/ \E c \in Callers : OnUnexpected(c)
    \/ Reset
    \/ Tick

SpecCB == InitCB /\ [][NextCB]_vars

NextRL ==
    \/ \E c \in Callers : Acquire(c)
    \/ \E c \in Callers : EnterLock(c)
    \/ \E c \in Callers : WakeAndRecurse(c)
    \/ Tick

SpecRL == Init /\ [][NextRL]_vars

NextSync ==
    \/ \E u \in Users, payload \in Payloads : SyncUserPodcasts(u, payload)
    \/ \E u \in Users : SyncFetchFails(u)

SpecSync == Init /\ [][NextSync]_vars

InitBudget ==
    /\ now = 0
    /\ NewCB(DefaultThreshold)
    /\ InitRL
    /\ InitSync
    /\ \E lim \in LimitSettings : NewTracker(lim)
    /\ InitClient
    /\ InitConfig(DefaultConfig)
    /\ InitRefresh
    /\ InitClients
    /\ InitAuthState
    /\ InitConnections
    /\ InitScheduler
    /\ InitCostCache

NextBudget ==
    \/ \E daily \in DailySpends, weekly \in WeeklySpends, monthly \in MonthlySpends,
          cost \in Costs : CheckBudget(daily, weekly, monthly, cost)
    \/ \E daily \in DailySpends, weekly \in WeeklySpends, monthly \in MonthlySpends,
          cost \in Costs :
            \E again \in {Raises, monthly} :
                TrackApiCall(TRUE, daily, weekly, monthly, again, cost)
    \/ \E cost \in Costs : TrackApiCall(FALSE, Raises, Raises, Raises, Raises, cost)

SpecBudget == InitBudget /\ [][NextBudget]_vars

NextClient ==
    \/ \E can_proceed \in BOOLEAN, status \in TokenStatuses :
            ExchangeCodeForTokens(can_proceed, status)
    \/ StartRequest
    \/ \E can_proceed \in BOOLEAN, status \in TokenStatuses :
            EnsureValidToken(can_proceed, status)
    \/ \E can_proceed \in BOOLEAN : CheckBudgetBeforeOperation(can_proceed)
    \/ RateLimiterAcquire
    \/ \E status \in Statuses, retry_after \in RetryAfterHints :
            HttpAttempt(status, retry_after)
    \/ Propagate
    \/ Tick

\* clients are built with any configuration
InitAnyConfig ==
    /\ now = 0
    /\ NewCB(DefaultThreshold)
    /\ InitRL
    /\ InitSync
    /\ NewTracker(DefaultLimits)
    /\ InitClient
    /\ \E cfg \in ConfigSettings : InitConfig(cfg)
    /\ InitRefresh
    /\ InitClients
    /\ InitAuthState
    /\ InitConnections
    /\ InitScheduler
    /\ InitCostCache

SpecClient == InitAnyConfig /\ [][NextClient]_vars

NextRefresh ==
    \/ \E c \in Callers : EvCheck(c)
    \/ \E c \in Callers, can_proceed \in BOOLEAN : EvPost(c, can_proceed)
    \/ \E c \in Callers, status \in TokenStatuses, rotated \in BOOLEAN :
            EvResponse(c, status, rotated)
    \/ \E c \in Callers : EvReturn(c)
    \/ Tick

SpecRefresh == Init /\ [][NextRefresh]_vars

NextClients ==
    \/ \E k \in Clients : NewSpotifyClient(k)
    \/ \E k \in Clients : ClientAcquire(k)
    \/ Tick

SpecClients == Init /\ [][NextClients]_vars

NextAuthState ==
    \/ \E st \in StateIds, b \in Bindings : SaveState(st, b)
    \/ \E st \in StateIds : GetState(st)
    \/ Tick

SpecAuthState == Init /\ [][NextAuthState]_vars

NextConnection ==
    \/ \E u \in Users : SaveTokens(u)
    \/ \E u \in Users, outcome \in SyncOutcomes : SyncUser(u, outcome)
    \/ Tick

SpecConnection == Init /\ [][NextConnection]_vars

NextScheduler ==
    \/ SchedStart
    \/ SyncAllUsers
    \/ SchedWake
    \/ SchedReturn
    \/ SchedStop
    \/ \E u \in Users : SaveTokens(u)
    \/ \E u \in Users : SyncUser(u, "ok")
    \/ Tick

SpecScheduler == Init /\ [][NextScheduler]_vars

NextCostCache ==
    \/ \E key \in CacheKeys, ok \in BOOLEAN : CachedApiCall(key, ok)
    \/ Tick

SpecCostCache == Init /\ [][NextCostCache]_vars

Next ==
    \/ NextCB \/ NextRL \/ NextSync \/ NextBudget \/ NextClient \/ NextRefresh
    \/ NextClients \/ NextAuthState \/ NextConnection \/ NextScheduler
    \/ NextCostCache
Spec == Init /\ [][Next]_vars

\* ------------------------------------------------------------------------
\* Properties of sync_user_podcasts
\* ------------------------------------------------------------------------
\* C1: a run that repeats the run before it (same user, same fetched payload)
\* reports new_shows = 0 and new_episodes = 0, adds no row to either table and
\* leaves total_episodes_played of every show as the first run left it.
C1_IdempotentSync ==
    [][(last_run # <<>> /\ SyncUserPodcasts(last_run[1], last_run[2])) =>
            /\ stats'.new_shows = 0
            /\ stats'.new_episodes = 0
            /\ Len(shows') = Len(shows)
            /\ Len(episodes') = Len(episodes)
            /\ \A i \in DOMAIN shows :
                    shows'[i].total_episodes_played = shows[i].total_episodes_played]_vars

\* a payload with an episode has been synced twice in a row
C1_Witness ==
    /\ rerun
    /\ stats.updated_shows > 0
    /\ \E i \in DOMAIN episodes : episodes[i].user_id = last_run[1]
    /\ \E i \in DOMAIN shows : shows[i].total_episodes_played > 0

\* C2: the tables never hold two Show rows with the same (user_id,
\* spotify_show_id) nor two Episode rows with the same (user_id,
\* spotify_episode_id).
C2_NoDuplicateRows ==
    /\ \A i, j \in DOMAIN shows :
            (shows[i].user_id = shows[j].user_id
                /\ shows[i].spotify_show_id = shows[j].spotify_show_id) => i = j
    /\ \A i, j \in DOMAIN episodes :
            (episodes[i].user_id = episodes[j].user_id
                /\ episodes[i].spotify_episode_id = episodes[j].spotify_episode_id) => i = j

\* the last run reported, with another played_at, an episode the user already
\* had a row for, and both users have rows for the same episode
C2_Witness ==
    /\ last_run # <<>>
    /\ \E i \in DOMAIN episodes, k \in DOMAIN last_run[2] :
            /\ episodes[i].user_id = last_run[1]
            /\ episodes[i].spotify_episode_id = last_run[2][k].episode
            /\ last_run[2][k].played_at # None
            /\ episodes[i].played_at # last_run[2][k].played_at
    /\ \E i \in DOMAIN shows : shows[i].user_id # last_run[1]

\* ------------------------------------------------------------------------
\* Properties of _check_budget_limits
\* ------------------------------------------------------------------------
Checked == bg_query # <<>>
SpendKnown == Checked /\ bg_query.daily.ok /\ bg_query.weekly.ok /\ bg_query.monthly.ok

\* C9: when the three spend queries answer, the check denies exactly when
\* spend + cost is strictly greater than the daily, the weekly or the monthly
\* limit for the matching spend, or than the emergency ceiling for the monthly
\* spend; a total equal to a limit is allowed.
C9_DeniesAboveLimit ==
    SpendKnown =>
        (bg_result = FALSE <=>
            \/ bg_query.daily.amount + bg_query.cost > daily_limit
            \/ bg_query.weekly.amount + bg_query.cost > weekly_limit
            \/ bg_query.monthly.amount + bg_query.cost > monthly_limit
            \/ bg_query.monthly.amount + bg_query.cost > emergency_limit)

\* dailySpent 4.50 against dailyLimit 5.00: an estimated cost of 0.50 brings
\* the total to the limit and is allowed
C9_Witness ==
    /\ SpendKnown
    /\ bg_query.daily.amount = 45
    /\ bg_query.daily.amount + bg_query.cost = daily_limit
    /\ bg_result = TRUE

\* C24: when the three spend queries answer and the monthly spend plus the
\* cost is above the emergency ceiling, the check denies and the alert it
\* sends is an EMERGENCY alert, whatever the daily and weekly spend are
C24_EmergencyEscalated ==
    (SpendKnown /\ bg_query.monthly.amount + bg_query.cost > emergency_limit) =>
        /\ bg_result = FALSE
        /\ bg_alerts = <<EMERGENCY>>

PeriodLimitExceeded ==
    \/ bg_query.daily.amount + bg_query.cost > daily_limit
    \/ bg_query.weekly.amount + bg_query.cost > weekly_limit
    \/ bg_query.monthly.amount + bg_query.cost > monthly_limit

\* C24 (amended): when the three spend queries answer and the monthly spend
\* plus the cost is above the emergency ceiling, the check denies; its own
\* alert is EMERGENCY when no daily, weekly or monthly limit is exceeded by
\* the same call and CRITICAL otherwise; and a track_api_call that is so
\* denied sends an EMERGENCY alert after it, unless its own query of the
\* monthly spend raises
C24_EmergencyOnDenial ==
    (SpendKnown /\ bg_query.monthly.amount + bg_query.cost > emergency_limit) =>
        /\ bg_result = FALSE
        /\ bg_alerts = IF PeriodLimitExceeded THEN <<CRITICAL>> ELSE <<EMERGENCY>>
        /\ (tr_result # "none" /\ tr_query.enabled) =>
                /\ tr_result = IF tr_query.again THEN "deny" ELSE "raised"
                /\ tr_alerts = IF tr_query.again THEN bg_alerts \o <<EMERGENCY>>
                               ELSE bg_alerts

\* a tracked call above the daily limit and above the emergency ceiling
C24_Witness ==
    /\ SpendKnown
    /\ bg_query.monthly.amount + bg_query.cost > emergency_limit
    /\ bg_query.daily.amount + bg_query.cost > daily_limit
    /\ tr_result = "deny"
    /\ tr_alerts = <<CRITICAL, EMERGENCY>>

NoLimitExceeded ==
    /\ bg_query.daily.amount + bg_query.cost <= daily_limit
    /\ bg_query.weekly.amount + bg_query.cost <= weekly_limit
    /\ bg_query.monthly.amount + bg_query.cost <= monthly_limit
    /\ bg_query.monthly.amount + bg_query.cost <= emergency_limit

\* C25: when the three spend queries answer and no limit is exceeded, the
\* check allows, and it sends one WARNING alert if spend + cost is above 80%
\* of the daily, the weekly or the monthly limit, and no alert otherwise
C25_WarningAboveEightyPercent ==
    (SpendKnown /\ NoLimitExceeded) =>
        /\ bg_result = TRUE
        /\ bg_alerts =
             IF \/ 10 * (bg_query.daily.amount + bg_query.cost) > 8 * daily_limit
                \/ 10 * (bg_query.weekly.amount + bg_query.cost) > 8 * weekly_limit
                \/ 10 * (bg_query.monthly.amount + bg_query.cost) > 8 * monthly_limit
             THEN <<WARNING>>
             ELSE <<>>

\* C30: when one of the three spend queries raises, the check allows the
\* operation and sends no alert, whatever the estimated cost is
C30_FailsOpen ==
    (Checked /\ ~SpendKnown) => (bg_result = TRUE /\ bg_alerts = <<>>)

\* the weekly query raises on a call whose daily total is above the daily
\* limit: the operation is allowed
C30_Witness ==
    /\ Checked
    /\ bg_query.daily.ok
    /\ ~bg_query.weekly.ok
    /\ bg_query.daily.amount + bg_query.cost > daily_limit
    /\ bg_result = TRUE
    /\ bg_alerts = <<>>

\* ------------------------------------------------------------------------
\* Properties of the CircuitBreaker
\* ------------------------------------------------------------------------
InCall == {c \in Callers : cb_pc[c] = "in_call"}

\* C3: a CLOSED breaker has counted fewer than failure_threshold failures, and
\* a counted failure in CLOSED keeps it CLOSED while the new count is below
\* the threshold and opens it, recording the time of the failure, when the
\* new count reaches the threshold.
C3_OpensAtThreshold ==
    /\ [](cb_state = CLOSED => failure_count < failure_threshold)
    /\ [][\A c \in Callers :
            (OnFailure(c) /\ cb_state = CLOSED) =>
                /\ (failure_count' < failure_threshold => cb_state' = CLOSED)
                /\ (failure_count' = failure_threshold =>
                        cb_state' = OPEN /\ last_failure_time' = now)]_vars

\* the breaker has just opened on its failure_threshold-th failure, after
\* having stayed CLOSED through earlier failures
C3_Witness ==
    /\ cb_event = <<"failure", CLOSED>>
    /\ cb_state = OPEN
    /\ failure_threshold >= 2
    /\ failure_count = failure_threshold
    /\ last_failure_time = now

\* C29: a success in CLOSED changes neither the state, the failure count nor
\* the last failure time; the count is the number of failures counted since
\* the breaker was last closed from HALF_OPEN or reset, successes in between
\* or not, and a CLOSED breaker has counted fewer than failure_threshold
C29_SuccessKeepsCount ==
    /\ [][\A c \in Callers :
            (OnSuccess(c) /\ cb_state = CLOSED) =>
                /\ cb_state' = CLOSED
                /\ failure_count' = failure_count
                /\ last_failure_time' = last_failure_time]_vars
    /\ [](failure_count = counted_failures)
    /\ [](cb_state = CLOSED => counted_failures < failure_threshold)

\* a call has just succeeded on a CLOSED breaker that is one failure short of
\* its threshold, and the failures counted before it are still counted
C29_Witness ==
    /\ cb_event = <<"success", CLOSED>>
    /\ cb_state = CLOSED
    /\ failure_count >= 1
    /\ failure_count = failure_threshold - 1
    /\ last_failure_time # None

\* C4: an OPEN breaker always has a last failure time, and a call that arrives
\* while it is OPEN and less than the recovery timeout has passed since that
\* time is rejected: the wrapped function is not entered and the state, the
\* failure count and the last failure time stay as they are.
C4_OpenRejects ==
    /\ [](cb_state = OPEN => last_failure_time # None)
    /\ [][\A c \in Callers :
            (BeforeCall(c) /\ cb_state = OPEN
                /\ now - last_failure_time < RecoveryTimeout) =>
                /\ cb_pc'[c] = "rejected"
                /\ InCall' = InCall
                /\ UNCHANGED <<cb_state, failure_count, last_failure_time>>]_vars

\* a call has just been rejected by the OPEN breaker
C4_Witness ==
    /\ cb_event = <<"before_call", OPEN>>
    /\ cb_state = OPEN
    /\ \E c \in Callers : cb_pc[c] = "rejected"

\* C5: the call that moves the breaker to HALF_OPEN is the only one let
\* through while it is in flight: a call that arrives right after that probe
\* was admitted, before any outcome has been recorded, does not reach the
\* wrapped function.
C5_SingleProbe ==
    [][\A c \in Callers :
        (BeforeCall(c) /\ cb_state = HALF_OPEN
            /\ cb_event = <<"before_call", OPEN>>) =>
            cb_pc'[c] # "in_call"]_vars

\* C6: a call that ends in success while the breaker is HALF_OPEN closes it
\* with the failure count reset to 0; a call that ends in a counted failure
\* while it is HALF_OPEN reopens it with the last failure time set to the time
\* of that failure.
C6_ProbeOutcome ==
    [][\A c \in Callers :
        /\ (OnSuccess(c) /\ cb_state = HALF_OPEN) =>
                cb_state' = CLOSED /\ failure_count' = 0
        /\ (OnFailure(c) /\ cb_state = HALF_OPEN) =>
                cb_state' = OPEN /\ last_failure_time' = now]_vars

\* a probe has just succeeded in HALF_OPEN after the breaker had been opened
C6_Witness ==
    /\ cb_event = <<"success", HALF_OPEN>>
    /\ cb_state = CLOSED
    /\ failure_count = 0
    /\ now >= RecoveryTimeout

\* ------------------------------------------------------------------------
\* Properties of the RateLimiter
\* ------------------------------------------------------------------------
\* admissions whose timestamp lies in the trailing window (t - period, t]
AdmittedInWindow(t) ==
    {i \in DOMAIN admitted : admitted[i] <= t /\ t - admitted[i] < PeriodTicks}

\* C7: acquire() always returns: a caller of acquire() never waits for the
\* limiter's lock while the only frame that can release that lock is its own
\* suspended one.
C7_AcquireReturns ==
    \A c \in Callers : rl_pc[c] = "wait_lock" => rl_lock # c

\* C8: at every time t, the number of admissions with a timestamp in the
\* trailing window (t - period, t] is at most calls_per_period.
C8_WindowBound ==
    \A t \in 0..MaxTime : Cardinality(AdmittedInWindow(t)) <= CallsPerPeriod

\* more calls than calls_per_period have been admitted, the last one after the
\* window had been full and its oldest admission had left it
C8_Witness ==
    /\ Len(admitted) > CallsPerPeriod
    /\ \E t \in 0..MaxTime : Cardinality(AdmittedInWindow(t)) = CallsPerPeriod
    /\ admitted[Len(admitted)] - admitted[1] >= PeriodTicks
    /\ admitted[CallsPerPeriod] - admitted[1] < PeriodTicks

\* C10: when the budget gate denies a Spotify API request in _make_request, or
\* a token exchange / refresh in SpotifyOAuth, the operation ends in an error
\* that is never retried, the denied invocation sends no request to the API (a
\* denied token call sends none to the token endpoint) and it takes no
\* rate-limiter slot.
C10_BudgetDenial ==
    /\ [](rq_err = "budget" =>
            /\ rq_pc \in {"raise", "failed"}
            /\ rq_exc = "exception"
            /\ inv_http = 0 /\ inv_slots = 0)
    /\ [](rq_err = "token_budget" =>
            /\ rq_pc \in {"raise", "failed"}
            /\ rq_exc = "exception"
            /\ inv_http = 0 /\ inv_slots = 0 /\ inv_token_http = 0)
    /\ [](oauth_result = "token_budget" => oauth_http = 0)
    /\ [][(rq_pc = "budget" /\ rq_pc' = "raise") =>
            /\ cl_calls' = cl_calls
            /\ inv_http' = inv_http]_vars
C10_Witness ==
    /\ rq_pc = "raise"
    /\ rq_err = "budget"
    /\ rq_frames # <<>>
    /\ inv_token_http = 1
    /\ Len(cl_calls) > 0

\* ------------------------------------------------------------------------
\* Properties of ensure_valid_token and of the retry policy of _make_request
\* ------------------------------------------------------------------------
\* C11: ensure_valid_token lets the request go on without a refresh call when
\* token_expires_at is more than the safety margin ahead, and with exactly one
\* refresh call when it is within the margin or already past.
C11_RefreshWithinMargin ==
    [][(rq_pc = "token" /\ rq_pc' = "budget") =>
        inv_token_http' = IF token_expires_at - now > SafetyMargin THEN 0 ELSE 1]_vars

\* C12: refreshes of one connection are single-flight: no two callers have a
\* refresh call in flight at the same time (so that no refresh token is sent
\* by two concurrent refreshes).
C12_SingleFlight ==
    \A c, d \in Callers :
        c # d => ~(ev_pc[c] = "posting" /\ ev_pc[d] = "posting")

\* C13: one logical request makes at most one retry on account of 401
\* responses: at most one of the invocations waiting for a nested
\* _make_request made its nested call after a 401.
C13_RetryOnceOn401 ==
    Cardinality({i \in DOMAIN rq_frames : rq_frames[i] = "on_401"}) <= 1

\* C14: a 429 answered while fewer than max_retries retries have been used
\* makes _make_request sleep for the Retry-After hint and try again with one
\* more retry used; a 429 answered once max_retries retries are used up raises
\* the rate-limit error, and after that error no further attempt is made.
C14_RetryOn429 ==
    /\ [][\A hint \in RetryAfterHints :
            HttpAttempt("429", hint) =>
                IF retry_count < max_retries
                THEN /\ now' = now + hint
                     /\ rq_pc' = "token"
                     /\ retry_count' = retry_count + 1
                ELSE /\ rq_pc' = "raise"
                     /\ rq_exc' = "exception"
                     /\ rq_err' = "rate_limit"
                     /\ now' = now]_vars
    /\ [](rq_err = "rate_limit" => rq_pc \in {"raise", "failed"})
\* every attempt was answered 429 and the request failed after max_retries
\* retries
C14_Witness ==
    /\ rq_pc = "failed"
    /\ rq_err = "rate_limit"
    /\ rq_attempts = max_retries + 1
    /\ api_rows = rq_attempts
    /\ cl_calls # <<>>

\* C27: one logical request (a top-level _make_request call) makes at most
\* max_retries + 1 HTTP attempts, whatever the attempts are answered
C27_AttemptsBounded == rq_attempts <= max_retries + 1

\* C15: a 5xx answered on attempt k < max_retries is followed, after a wait
\* of backoff_factor * 2^k, by another attempt.
C15_RetryOn5xx ==
    [][\A hint \in RetryAfterHints :
        (HttpAttempt("500", hint) /\ retry_count < max_retries) =>
            /\ rq_pc' = "token"
            /\ retry_count' = retry_count + 1
            /\ now' = now + backoff_factor * (2 ^ retry_count)]_vars

\* C16: for every configured max_retries and backoff_factor, a network error
\* on attempt k < max_retries is followed, after a wait of
\* backoff_factor * 2^k, by another attempt, and a network error once
\* max_retries retries are used up propagates.
C16_RetryOnNetworkError ==
    [][\A hint \in RetryAfterHints :
        HttpAttempt("network", hint) =>
            IF retry_count < max_retries
            THEN /\ rq_pc' = "token"
                 /\ retry_count' = retry_count + 1
                 /\ now' = now + backoff_factor * (2 ^ retry_count)
            ELSE /\ rq_pc' = "raise"
                 /\ rq_exc' = "client_error"]_vars

\* C17: every HTTP attempt of _make_request runs inside the circuit breaker of
\* the remote platform: an attempt that ends in a network error or in a 5xx is
\* counted by the breaker as a failure.
C17_InsideCircuitBreaker ==
    [][\A hint \in RetryAfterHints, status \in {"network", "500"} :
        HttpAttempt(status, hint) =>
            /\ failure_count' = failure_count + 1
            /\ last_failure_time' = now]_vars

\* C18: the limiter is shared by all clients: at every time, the calls
\* admitted over all clients in the trailing window of one period number at
\* most calls_per_period.
C18_SharedBucket ==
    Cardinality({i \in DOMAIN inst_admitted :
                    now - inst_admitted[i] < PeriodTicks}) <= CallsPerPeriod

\* C19: when a logical request has finished, with success or with an error,
\* the SpotifyAPICall rows added for it are as many as the HTTP attempts made
\* for it.
C19_EveryAttemptRecorded ==
    rq_pc \in {"done", "failed"} => api_rows = rq_attempts

\* ------------------------------------------------------------------------
\* Properties of SpotifyAuthState
\* ------------------------------------------------------------------------
\* C20: after save_state(state, ...) at most one get_state(state) returns
\* data; the get_state that returns data (the state not having been saved
\* again since) returns what that save stored and was made no later than the
\* time to live after the save.
C20_StateSingleUse ==
    /\ \A st \in StateIds : st_returns[st] <= 1
    /\ (st_result # <<>> /\ st_result.data # NoState
            /\ st_returns[st_result.state] >= 1) =>
            /\ st_result.data = st_saved[st_result.state]
            /\ st_result.at <= st_saved[st_result.state].expires_at
\* a state was saved and returned once, and a later get_state for it, the
\* last call made, returned nothing
C20_Witness ==
    /\ st_result # <<>>
    /\ st_result.data = NoState
    /\ st_returns[st_result.state] = 1
    /\ st_saved[st_result.state] # NoState
    /\ st_result.at <= st_saved[st_result.state].expires_at

\* ------------------------------------------------------------------------
\* Properties of the connection's failure counter and of the scheduler
\* ------------------------------------------------------------------------
\* C21: once sync_failure_count of a connection has reached 5, no step other
\* than save_tokens for that user brings it back below 5
C21_SuppressedUntilReauthorized ==
    [][\A u \in Users :
          (sync_failure_count[u] >= SyncFailureLimit
              /\ sync_failure_count'[u] < SyncFailureLimit) => SaveTokens(u)]_vars

\* C22: when a sync_all_users call has ended, every connection that was due
\* when it began has been synced by it
C22_OthersStillSynced == sa_due \subseteq sa_synced

\* C28: every failed sync_user_podcasts run raises sync_failure_count by
\* exactly 1 and sets last_sync_error, whatever made it fail
C28_OneCountPerFailedRun ==
    [][\A u \in Users, outcome \in SyncOutcomes \ {"ok"} :
          SyncUser(u, outcome) =>
              /\ sync_failure_count'[u] = sync_failure_count[u] + 1
              /\ last_sync_error'[u]]_vars

\* C23: after a run whose payload was fetched, every item of the payload that
\* names a show has its show row, and the run is not counted as a failure of
\* the connection, also when an item of the payload raised
C23_ItemErrorTolerated ==
    last_run # <<>> =>
        LET u == last_run[1]
            payload == last_run[2]
        IN  /\ sync_failure_count[u] = 0
            /\ \A i \in DOMAIN payload :
                    payload[i].show # NoId => ShowIndex(shows, u, payload[i].show) # 0

\* ------------------------------------------------------------------------
\* Properties of the CostAwareCostTracker
\* ------------------------------------------------------------------------
\* C26: on no day does _cached_api_call make more than max_daily_api_calls
\* calls of the wrapped cost query
C26_DailyCallCap == \A d \in Days : oracle_calls[d] <= MaxDailyApiCalls
====
